---- MODULE Spec2Model ----
(***************************************************************************)
(* Model of src/Stresstest_dockers.py: create_container (port allocation,  *)
(* TLS credential materialization, create/start requests to the daemon)    *)
(* and the main loop that drives it against the shared set portbl.         *)
(*                                                                         *)
(* Representation of Python values:                                        *)
(*   - a text with '/' or ':' separators is the tuple of its parts, so     *)
(*     "80/tcp" is <<80, "tcp">>, "30000/udp" is <<30000, "udp">>, and     *)
(*     s.split(sep)[k] is s[k+1];                                          *)
(*   - a dict with insertion order is a sequence of keys or of             *)
(*     <<key, value>> pairs; a JSON object from the daemon is a record;    *)
(*   - json.dumps(obj) is a str: [pytype |-> "str", text |-> obj];         *)
(*   - None and the empty list are <<>>.                                   *)
(***************************************************************************)
EXTENDS Integers, Sequences, FiniteSets, TLC

VARIABLES
    pc,             \* position of the program
    exc,            \* exception that left the program, "none" if none
    i,              \* number of loop iterations of main begun (attempt id)
    portbl,         \* main: portbl, the Used-Ports Set
    results,        \* main: results
    docker,         \* the MockDocker object passed to create_container
    image,          \* the image argument
    team,           \* the team argument
    required,       \* what get_required_ports answers for the image
    tmpfiles,       \* temporary files that exist on disk
    prefix,         \* create_container: prefix
    CERT,           \* create_container: CERT
    assigned_ports, \* create_container: assigned_ports (keys, in order)
    ports_list,     \* create_container: ports_list
    bindings,       \* create_container: bindings (<<key, value>> pairs)
    data,           \* create_container: data
    result,         \* create_container: result
    ret,            \* value returned by create_container
    log,            \* requests sent to the daemon, with their responses
    reserved,       \* history: ports_list of each attempt that returned a result
    other           \* the locals of a second attempt that is not running now

vars == <<pc, exc, i, portbl, results, docker, image, team, required, tmpfiles,
          prefix, CERT, assigned_ports, ports_list, bindings, data, result,
          ret, log, reserved, other>>

(***************************************************************************)
(* Bounds of the model.                                                    *)
(***************************************************************************)
\* how many candidate ports are kept at each end of range(30000, 60000)
NumSamples == 2
\* largest number of required ports an image declares
MaxPorts == 2

(***************************************************************************)
(* Program constants.                                                      *)
(***************************************************************************)
PortLo == 30000
PortHi == 60000
workload_count == 50

None == <<>>
EmptyList == <<>>

\* random.choice(range(30000, 60000)): the candidates, NumSamples at each end
PortRange == (PortLo .. (PortLo + NumSamples - 1)) \cup ((PortHi - NumSamples) .. (PortHi - 1))

\* line 60: assigned_port not in portbl
PortIsFreeNoCheck(assigned_port, used) == TRUE
PortIsFree(assigned_port, used) == assigned_port \notin used

\* the owner pool main reads from teams.json
teams == {"alpha", "beta"}

\* main: image = "httpd:latest"
MainImage == <<"httpd", "latest">>

\* main: MockDocker(tls_enabled=True, ..., hostname="172.17.0.1:2376")
MainDocker == [tls_enabled |-> TRUE, hostname |-> "172.17.0.1:2376"]

\* port requirements an image may declare
PortRequirements == {<<80, "tcp">>, <<80, "udp">>, <<443, "tcp">>}

RECURSIVE SeqsUpTo(_, _)
SeqsUpTo(S, n) ==
    IF n = 0 THEN {<<>>}
    ELSE LET shorter == SeqsUpTo(S, n - 1)
         IN shorter \cup {Append(s, x) : s \in shorter, x \in S}

NoDuplicates(s) == \A a, b \in 1..Len(s) : a # b => s[a] # s[b]

\* get_required_ports(docker, image): a stand-in for the lookup of the image's
\* exposed ports; its answer is an input of the run. An image's exposed
\* ports are the keys of a dict, so no key occurs twice. The stand-in's own
\* answer, ["80/tcp"], is one of the choices.
RequiredPortsChoices == {s \in SeqsUpTo(PortRequirements, MaxPorts) : NoDuplicates(s)}

\* what the daemon may answer to a create request (r.json())
DaemonCreateResponses == {[Id |-> "c1"], [Id |-> "c2"], [message |-> "conflict"]}

\* what the daemon may answer to a start request (status code)
DaemonStartStatuses == {204, 500}

\* hashlib.md5(team.encode("utf-8")).hexdigest()[:10], kept injective
Md5Hex10(owner) == <<"md5hex10", owner>>

\* line 53: "%s_%s" % (image.split(':')[0], team)
\* the name built from the text after the last ':' instead of before the first
container_name_from_tag == <<image[Len(image)], Md5Hex10(team)>>
container_name == <<image[1], Md5Hex10(team)>>

\* line 50: '%s://%s' % (prefix, host)
URL_TEMPLATE == <<prefix, docker.hostname>>

\* json.dumps
JsonDumps(obj) == [pytype |-> "str", text |-> obj]

\* whether v[key] with a text key is defined: not for a str
SubscriptableByKey(v) == v.pytype = "dict"

\* truth value of a dict
Truthy(d) == DOMAIN d # {}

Raise(e) == pc' = "raised" /\ exc' = e

(***************************************************************************)
(* create_container                                                        *)
(***************************************************************************)

\* lines 23-28: choose the scheme
Enter ==
    /\ pc = "enter"
    /\ IF ~docker.tls_enabled
       THEN prefix' = "http" /\ pc' = "alloc"
       ELSE prefix' = "https" /\ pc' = "ca"
    /\ UNCHANGED <<other, exc, i, portbl, results, docker, image, team, required, tmpfiles,
                   CERT, assigned_ports, ports_list, bindings, data, result,
                   ret, log, reserved>>

\* One temporary file of the try block (NamedTemporaryFile(delete=False),
\* write, seek): "ok", or the creation raises (no file), or the write raises
\* (the file exists). Lines 46-48: the except clause returns [].
Materialize(kind, here, next) ==
    /\ pc = here
    /\ \E outcome \in {"ok", "create_raises", "write_raises"} :
        /\ tmpfiles' = IF outcome = "create_raises" THEN tmpfiles
                       ELSE tmpfiles \cup {<<i, kind>>}
        /\ IF outcome = "ok"
           THEN /\ pc' = next
                /\ CERT' = IF kind = "key" THEN <<<<i, "client">>, <<i, "key">>>> ELSE CERT
                /\ ret' = ret
           ELSE /\ pc' = "returned"
                /\ ret' = EmptyList
                /\ CERT' = CERT
    /\ UNCHANGED <<other, exc, i, portbl, results, docker, image, team, required,
                   prefix, assigned_ports, ports_list, bindings, data, result,
                   log, reserved>>

\* lines 36-38
MaterializeCA == Materialize("ca", "ca", "client")
\* lines 39-41
MaterializeClient == Materialize("client", "client", "key")
\* lines 42-45
MaterializeKey == Materialize("key", "key", "alloc")

\* assigned_ports[key] = {}: a new key goes last, a known key keeps its place
DictSetKey(keys, key) ==
    IF \E k \in 1..Len(keys) : keys[k] = key THEN keys ELSE Append(keys, key)

\* the loop adding the port it assigns to portbl itself
SampleReserving ==
    /\ pc = "alloc"
    /\ Len(ports_list) < Len(required)
    /\ \E assigned_port \in PortRange :
        IF PortIsFree(assigned_port, portbl)
        THEN LET port_protocol == required[Len(ports_list) + 1][2]
             IN /\ assigned_ports' = DictSetKey(assigned_ports, <<assigned_port, port_protocol>>)
                /\ ports_list' = Append(ports_list, assigned_port)
                /\ portbl' = portbl \cup {assigned_port}
        ELSE UNCHANGED <<assigned_ports, ports_list, portbl>>
    /\ UNCHANGED <<other, pc, exc, i, results, docker, image, team, required, tmpfiles,
                   prefix, CERT, bindings, data, result, ret, log, reserved>>
\* lines 57-64: one pass of the while loop for requirement number
\* Len(ports_list) + 1
Sample ==
    /\ pc = "alloc"
    /\ Len(ports_list) < Len(required)
    /\ \E assigned_port \in PortRange :
        IF PortIsFree(assigned_port, portbl)
        THEN LET port_protocol == required[Len(ports_list) + 1][2]
             IN /\ assigned_ports' = DictSetKey(assigned_ports, <<assigned_port, port_protocol>>)
                /\ ports_list' = Append(ports_list, assigned_port)
        ELSE UNCHANGED <<assigned_ports, ports_list>>
    /\ UNCHANGED <<other, pc, exc, i, portbl, results, docker, image, team, required, tmpfiles,
                   prefix, CERT, bindings, data, result, ret, log, reserved>>

\* the loop reading the last key without removing it (tmp_ports[-1])
RECURSIVE BindLoopNoPop(_, _, _)
BindLoopNoPop(needed_ports, tmp_ports, acc) ==
    IF needed_ports = <<>> THEN [raised |-> FALSE, bindings |-> acc]
    ELSE IF tmp_ports = <<>> THEN [raised |-> TRUE, bindings |-> acc]
    ELSE BindLoopNoPop(Tail(needed_ports),
                       tmp_ports,
                       Append(acc, <<Head(needed_ports),
                                     <<[HostPort |-> tmp_ports[Len(tmp_ports)]]>>>>))
\* lines 68-70: bindings[i] = [{"HostPort": tmp_ports.pop()}] for each i;
\* pop() takes the last key and raises IndexError on an empty list
RECURSIVE BindLoop(_, _, _)
BindLoop(needed_ports, tmp_ports, acc) ==
    IF needed_ports = <<>> THEN [raised |-> FALSE, bindings |-> acc]
    ELSE IF tmp_ports = <<>> THEN [raised |-> TRUE, bindings |-> acc]
    ELSE BindLoop(Tail(needed_ports),
                  SubSeq(tmp_ports, 1, Len(tmp_ports) - 1),
                  Append(acc, <<Head(needed_ports),
                                <<[HostPort |-> tmp_ports[Len(tmp_ports)]]>>>>))

\* line 76: the creation payload
Payload(b) ==
    [Image |-> image,
     ExposedPorts |-> required,
     HostConfig |-> [PortBindings |-> b, CpuShares |-> 512, Memory |-> 2000000000],
     Env |-> <<<<"PORTS", ports_list>>>>]

\* lines 65-76: build ports, bindings and data once the for loop is over
Bind ==
    /\ pc = "alloc"
    /\ Len(ports_list) = Len(required)
    /\ LET built == BindLoop(required, assigned_ports, <<>>)
       IN /\ bindings' = built.bindings
          /\ IF built.raised
             THEN Raise("IndexError") /\ data' = data
             ELSE pc' = "create" /\ exc' = exc /\ data' = JsonDumps(Payload(built.bindings))
    /\ UNCHANGED <<other, i, portbl, results, docker, image, team, required, tmpfiles,
                   prefix, CERT, assigned_ports, ports_list, result, ret, log, reserved>>

\* the cert argument of a request: cert=CERT in the tls branch, none otherwise
RequestCertNone(tls, cert) == None
RequestCert(tls, cert) == IF tls THEN cert ELSE None

\* lines 77-80 and 84-88: POST containers/create?name=..., result = r.json()
PostCreate ==
    /\ pc = "create"
    /\ \E response \in DaemonCreateResponses :
        /\ result' = response
        /\ log' = Append(log, [kind |-> "create", attempt |-> i,
                               url |-> <<URL_TEMPLATE, "containers", "create", container_name>>,
                               cert |-> RequestCert(docker.tls_enabled, CERT),
                               body |-> data, response |-> response])
    /\ pc' = "start"
    /\ UNCHANGED <<other, exc, i, portbl, results, docker, image, team, required, tmpfiles,
                   prefix, CERT, assigned_ports, ports_list, bindings, data,
                   ret, reserved>>

\* the Id the start URL is built from
StartTargetFixed(r) == "c1"
StartTarget(r) == r.Id

\* lines 81-82 and 90-91: result['Id'] raises KeyError when the response has
\* no Id; otherwise POST containers/<Id>/start, whose response is not looked
\* at, and return result, data
PostStart ==
    /\ pc = "start"
    /\ IF "Id" \notin DOMAIN result
       THEN /\ Raise("KeyError")
            /\ UNCHANGED <<log, ret, reserved>>
       ELSE /\ \E status \in DaemonStartStatuses :
                log' = Append(log, [kind |-> "start", attempt |-> i,
                                    url |-> <<URL_TEMPLATE, "containers", StartTarget(result), "start">>,
                                    cert |-> RequestCert(docker.tls_enabled, CERT),
                                    body |-> None, response |-> status])
            /\ ret' = <<result, data>>
            /\ reserved' = Append(reserved, ports_list)
            /\ pc' = "returned"
            /\ exc' = exc
    /\ UNCHANGED <<other, i, portbl, results, docker, image, team, required, tmpfiles,
                   prefix, CERT, assigned_ports, ports_list, bindings, data, result>>

(***************************************************************************)
(* main                                                                    *)
(***************************************************************************)

\* lines 111-113: the loop head, team = random.choice(teams) and the call
\* of create_container (lines 24, 54, 56: its locals start empty);
\* line 119 once the range is used up
MainIter ==
    /\ pc = "main"
    /\ IF i < workload_count
       THEN /\ i' = i + 1
            /\ team' \in teams
            /\ pc' = "enter"
            /\ prefix' = "none"
            /\ CERT' = None
            /\ assigned_ports' = <<>>
            /\ ports_list' = <<>>
            /\ bindings' = <<>>
       ELSE /\ pc' = "done"
            /\ UNCHANGED <<i, team, prefix, CERT, assigned_ports, ports_list, bindings>>
    /\ UNCHANGED <<other, exc, portbl, results, docker, image, required, tmpfiles,
                   data, result, ret, log, reserved>>

\* line 117: int(port[0]['HostPort'].split('/')[0]) for each value of the
\* bindings
BoundHostPorts(b) == {b[k][2][1].HostPort[1] : k \in 1..Len(b)}

\* lines 113-117: unpack the returned value (ValueError unless it has two
\* items), append a truthy result, then read data['HostConfig'], which
\* raises TypeError on a str
Record ==
    /\ pc = "returned"
    /\ IF Len(ret) # 2
       THEN Raise("ValueError") /\ UNCHANGED <<results, portbl>>
       ELSE IF ~Truthy(ret[1])
       THEN pc' = "main" /\ UNCHANGED <<exc, results, portbl>>
       ELSE /\ results' = Append(results, ret[1])
            /\ IF SubscriptableByKey(ret[2])
               THEN /\ portbl' = portbl \cup BoundHostPorts(ret[2].text.HostConfig.PortBindings)
                    /\ pc' = "main" /\ exc' = exc
               ELSE Raise("TypeError") /\ portbl' = portbl
    /\ UNCHANGED <<other, i, docker, image, team, required, tmpfiles,
                   prefix, CERT, assigned_ports, ports_list, bindings, data, result,
                   ret, log, reserved>>

(***************************************************************************)
(* Specifications                                                          *)
(***************************************************************************)

\* no second attempt: main runs one attempt at a time
NoOther ==
    [pc |-> "idle", exc |-> "none", i |-> 0, team |-> "alpha", prefix |-> "none",
     CERT |-> None, assigned_ports |-> <<>>, ports_list |-> <<>>, bindings |-> <<>>,
     data |-> JsonDumps(None), result |-> [message |-> "none"], ret |-> EmptyList]

CallLocalsInit ==
    /\ prefix = "none"
    /\ CERT = None
    /\ assigned_ports = <<>>
    /\ ports_list = <<>>
    /\ bindings = <<>>
    /\ data = JsonDumps(None)
    /\ result = [message |-> "none"]
    /\ ret = EmptyList
    /\ log = <<>>
    /\ reserved = <<>>
    /\ tmpfiles = {}
    /\ exc = "none"
    /\ results = <<>>

\* main, lines 106-109, before the first iteration
Init ==
    /\ pc = "main"
    /\ i = 0
    /\ portbl = {}
    /\ docker = MainDocker
    /\ image = MainImage
    /\ team = "alpha"
    /\ required \in RequiredPortsChoices
    /\ CallLocalsInit
    /\ other = NoOther

Next ==
    \/ MainIter
    \/ Enter
    \/ MaterializeCA
    \/ MaterializeClient
    \/ MaterializeKey
    \/ Sample
    \/ Bind
    \/ PostCreate
    \/ PostStart
    \/ Record

Spec == Init /\ [][Next]_vars

\* one call create_container(docker, image, team, portbl) with any arguments
InitCall ==
    /\ pc = "enter"
    /\ i = 1
    /\ portbl \in SUBSET PortRange
    /\ docker \in [tls_enabled : BOOLEAN, hostname : {"172.17.0.1:2376"}]
    /\ image \in {MainImage, <<"nginx">>}
    /\ team \in teams
    /\ required \in RequiredPortsChoices
    /\ CallLocalsInit
    /\ other = NoOther

NextCall ==
    \/ Enter
    \/ MaterializeCA
    \/ MaterializeClient
    \/ MaterializeKey
    \/ Sample
    \/ Bind
    \/ PostCreate
    \/ PostStart

SpecCall == InitCall /\ [][NextCall]_vars

\* the locals of the attempt that is running
Running ==
    [pc |-> pc, exc |-> exc, i |-> i, team |-> team, prefix |-> prefix,
     CERT |-> CERT, assigned_ports |-> assigned_ports, ports_list |-> ports_list,
     bindings |-> bindings, data |-> data, result |-> result, ret |-> ret]

\* Two attempts interleaved without mutual exclusion: the running attempt
\* is suspended between two of its steps and the other one resumes. What
\* main shares between attempts (portbl, results) and the outside world
\* (files, daemon) stay as they are.
Switch ==
    /\ other.pc \notin {"idle", "raised", "main", "done"}
    /\ other' = Running
    /\ pc' = other.pc
    /\ exc' = other.exc
    /\ i' = other.i
    /\ team' = other.team
    /\ prefix' = other.prefix
    /\ CERT' = other.CERT
    /\ assigned_ports' = other.assigned_ports
    /\ ports_list' = other.ports_list
    /\ bindings' = other.bindings
    /\ data' = other.data
    /\ result' = other.result
    /\ ret' = other.ret
    /\ UNCHANGED <<portbl, results, docker, image, required, tmpfiles, log, reserved>>

\* two iterations of main's loop body (lines 112-117) begun against the
\* same portbl, for the one-port answer of get_required_ports
InitRace ==
    /\ pc = "enter"
    /\ i = 1
    /\ portbl \in SUBSET {PortLo}
    /\ docker = MainDocker
    /\ image = MainImage
    /\ team \in teams
    /\ required \in {s \in RequiredPortsChoices : Len(s) = 1}
    /\ CallLocalsInit
    /\ \E t \in teams : other = [NoOther EXCEPT !.pc = "enter", !.i = 2, !.team = t]

NextRace ==
    \/ Enter
    \/ MaterializeCA
    \/ MaterializeClient
    \/ MaterializeKey
    \/ Sample
    \/ Bind
    \/ PostCreate
    \/ PostStart
    \/ Record
    \/ Switch

SpecRace == InitRace /\ [][NextRace]_vars
\* One call, with random.choice (line 59) sampling fairly: a candidate that
\* passes the test of line 60 is eventually drawn while one exists.
SpecCallFair == InitCall /\ [][NextCall]_vars /\ WF_vars(Sample)
(***************************************************************************)
(* Properties                                                              *)
(***************************************************************************)

\* a create request of attempt a was answered without an Id
CreateAnsweredWithoutId(a) ==
    \E k \in 1..Len(log) :
        log[k].kind = "create" /\ log[k].attempt = a /\ "Id" \notin DOMAIN log[k].response

RequestSent(kind, a) ==
    \E k \in 1..Len(log) : log[k].kind = kind /\ log[k].attempt = a

\* create_container has returned a result for the current attempt and main
\* has finished handling it
AttemptRecorded ==
    /\ Len(ret) = 2
    /\ \/ pc = "main"
       \/ pc = "raised" /\ exc = "TypeError"

\* C1: the host ports assigned to the successful attempts of a run are
\* pairwise distinct, across attempts and within one attempt.
C1_HostPortsPairwiseDistinct ==
    \A a, b \in 1..Len(reserved) :
        \A x \in 1..Len(reserved[a]), y \in 1..Len(reserved[b]) :
            (a # b \/ x # y) => reserved[a][x] # reserved[b][y]

\* C2: every host port the allocation loop assigns lies in [30000, 60000)
\* and is not a member of portbl as supplied to the call.
C2_AssignedInRangeAndFree ==
    \A k \in 1..Len(ports_list) :
        /\ ports_list[k] >= PortLo
        /\ ports_list[k] < PortHi
        /\ ports_list[k] \notin portbl

\* a call with a non-empty portbl has assigned a port for every one of two
\* requirements and returned
C2_Witness ==
    /\ pc = "returned"
    /\ Len(ret) = 2
    /\ portbl # {}
    /\ Len(ports_list) = 2

\* C3: within one call, each assigned host port differs from every host
\* port assigned earlier in that call.
C3_DistinctWithinCall == NoDuplicates(ports_list)

\* C4: when the create response has no Id, create_container does not raise,
\* returns no result, sends no start request, and nothing is recorded.
C4_NoIdReturnsNoResult ==
    CreateAnsweredWithoutId(i) =>
        /\ exc = "none"
        /\ ~RequestSent("start", i)
        /\ (pc = "returned" => ret = EmptyList)
        /\ results = <<>>

\* C5: a failed credential materialization aborts only its attempt: no
\* create request, no result, portbl unchanged, and the loop goes on.
C5_CredentialFailureSkipsAttempt ==
    /\ (pc = "returned" /\ ret = EmptyList) =>
            /\ ~RequestSent("create", i)
            /\ results = <<>>
            /\ portbl = {}
    /\ exc # "ValueError"

\* C6: between attempts and at the end of the run no temporary credential
\* file exists.
C6_NoTempFileOutlivesAttempt ==
    pc \in {"main", "returned", "raised", "done"} => tmpfiles = {}

\* C7: the loop is left only after exactly workload_count attempts.
C7_ExactlyWorkloadCountAttempts ==
    pc \in {"done", "raised"} => i = workload_count

\* C8: after a successful attempt its result is appended and portbl holds
\* every host port of its PortBindings; with one required port, portbl has
\* as many entries as there are results.
C8_SuccessFoldsPorts ==
    AttemptRecorded =>
        /\ results # <<>>
        /\ results[Len(results)] = ret[1]
        /\ BoundHostPorts(bindings) \subseteq portbl
        /\ (Len(required) = 1 => Cardinality(portbl) = Len(results))

\* C9: a start request directly follows the create request of the same
\* attempt, whose response carried an Id; it targets that Id and uses the
\* scheme, host and client credential pair of the create request.
C9_StartFollowsCreate ==
    \A k \in 1..Len(log) :
        log[k].kind = "start" =>
            /\ k > 1
            /\ log[k - 1].kind = "create"
            /\ log[k - 1].attempt = log[k].attempt
            /\ "Id" \in DOMAIN log[k - 1].response
            /\ log[k].url[3] = log[k - 1].response.Id
            /\ log[k].url[1] = log[k - 1].url[1]
            /\ log[k].cert = log[k - 1].cert

\* an encrypted call has sent its start request to container c2
C9_Witness ==
    /\ pc = "returned"
    /\ docker.tls_enabled
    /\ Len(log) = 2
    /\ log[2].kind = "start"
    /\ log[2].url[3] = "c2"
    /\ log[2].cert # None

\* C10: when the start call reports a failure after a create with an Id,
\* the attempt still counts: its result is appended and its host ports are
\* folded into portbl.
C10_FailedStartStillCounted ==
    (/\ log # <<>>
     /\ log[Len(log)].kind = "start"
     /\ log[Len(log)].response = 500
     /\ pc \in {"main", "raised", "done"}) =>
        /\ Len(results) >= 1
        /\ results[Len(results)] = result
        /\ BoundHostPorts(bindings) \subseteq portbl
\* C11: the name sent in a create request is
\* '<image text before the first colon>_<first 10 hex characters of
\* md5(owner)>', whatever portbl, the transport mode and the attempt are,
\* and it is not the name of another owner for the same image.
C11_NameIsFunctionOfOwnerAndImage ==
    \A k \in 1..Len(log) :
        log[k].kind = "create" =>
            /\ log[k].url[4] = <<image[1], <<"md5hex10", team>>>>
            /\ \A t \in teams \ {team} : log[k].url[4] # <<image[1], <<"md5hex10", t>>>>

\* a create request was sent for a tagged image with a non-empty portbl
C11_Witness ==
    /\ Len(log) >= 1
    /\ log[1].kind = "create"
    /\ Len(image) = 2
    /\ portbl # {}

\* C12: a plaintext attempt creates no temporary file and sends its requests
\* with scheme http and no client certificate; an encrypted attempt sends
\* them with scheme https and the client certificate and key files, and its
\* three temporary files (CA, certificate, key) exist.
C12_TransportDuality ==
    /\ ~docker.tls_enabled =>
            /\ tmpfiles = {}
            /\ \A k \in 1..Len(log) : log[k].url[1][1] = "http" /\ log[k].cert = None
    /\ docker.tls_enabled =>
            \A k \in 1..Len(log) :
                /\ log[k].url[1][1] = "https"
                /\ log[k].cert = <<<<log[k].attempt, "client">>, <<log[k].attempt, "key">>>>
                /\ {<<log[k].attempt, kind>> : kind \in {"ca", "client", "key"}} \subseteq tmpfiles
                /\ Cardinality(tmpfiles) >= 3

\* an encrypted attempt has sent its create request
C12_Witness ==
    /\ docker.tls_enabled
    /\ Len(log) = 1
    /\ log[1].kind = "create"
    /\ pc = "start"
\* every candidate of the range is in portbl
AllocatorExhausted == PortRange \subseteq portbl

\* C13: with every port of the range in portbl and a port required, the
\* call never gets past the allocation loop and sends no create request;
\* with a free port, under fair sampling, the loop comes to have assigned a
\* port for every requirement.
C13_LoopExitsIffPortFree ==
    /\ [](AllocatorExhausted /\ Len(required) > 0 =>
            /\ pc \in {"enter", "ca", "client", "key", "alloc", "returned"}
            /\ ports_list = <<>>
            /\ log = <<>>)
    /\ (pc = "alloc" /\ ~AllocatorExhausted) ~> (Len(ports_list) = Len(required))

\* the call is in the allocation loop with a port required and none free
C13_Witness ==
    /\ pc = "alloc"
    /\ Len(required) > 0
    /\ AllocatorExhausted
\* C14: portbl starts empty and every step leaves it a superset of what it
\* was; no step of create_container changes portbl or results, and neither
\* does main when the attempt failed (nothing returned, or an exception).
C14_UsedPortsOnlyGrow ==
    /\ portbl = {}
    /\ [][/\ portbl \subseteq portbl'
          /\ (pc # "returned" => portbl' = portbl /\ results' = results)
          /\ (pc = "returned" /\ Len(ret) # 2 => portbl' = portbl /\ results' = results)
          /\ (exc' \in {"KeyError", "ValueError", "IndexError"} =>
                portbl' = portbl /\ results' = results)]_vars

\* an attempt has failed for its credentials or for a response without Id
\* after a port was assigned
C14_Witness ==
    /\ pc = "raised"
    /\ exc = "KeyError"
    /\ Len(ports_list) >= 1
    /\ portbl = {}
    /\ results = <<>>
\* how many entries of s equal x
Count(s, x) == Cardinality({k \in 1..Len(s) : s[k] = x})

\* the payloads of the create requests sent
CreatePayloads == {log[k].body.text : k \in {j \in 1..Len(log) : log[j].kind = "create"}}

\* the host port numbers of the bindings b, in order
BoundNumbers(b) == [m \in 1..Len(b) |-> b[m][2][1].HostPort[1]]

\* C15: in every creation payload each required key is in ExposedPorts and
\* in PortBindings, bound to a one-element list whose HostPort is the
\* assigned port number alone, without protocol suffix, within
\* [30000, 60000).
C15_HostPortIsNumberAlone ==
    \A pay \in CreatePayloads :
        LET b == pay.HostConfig.PortBindings
        IN \A r \in 1..Len(required) :
              /\ \E e \in 1..Len(pay.ExposedPorts) : pay.ExposedPorts[e] = required[r]
              /\ \E m \in 1..Len(b) :
                    /\ b[m][1] = required[r]
                    /\ Len(b[m][2]) = 1
                    /\ Len(b[m][2][1].HostPort) = 1
                    /\ b[m][2][1].HostPort[1] >= PortLo
                    /\ b[m][2][1].HostPort[1] < PortHi
                    /\ Count(ports_list, b[m][2][1].HostPort[1]) >= 1

\* C17: in every creation payload PORTS has one entry per required port,
\* and the PORTS entries and the host ports of PortBindings are the same
\* ports, entry for entry (each number as often in one as in the other),
\* every required port being bound once.
C17_PortsEnvMatchesBindings ==
    \A pay \in CreatePayloads :
        LET b == pay.HostConfig.PortBindings
            PORTS == pay.Env[1][2]
        IN /\ Len(PORTS) = Len(required)
           /\ Len(b) = Len(required)
           /\ \A r \in 1..Len(required) :
                Cardinality({m \in 1..Len(b) : b[m][1] = required[r]}) = 1
           /\ \A m \in 1..Len(PORTS) :
                Count(PORTS, PORTS[m]) = Count(BoundNumbers(b), PORTS[m])
           /\ \A m \in 1..Len(b) :
                Count(PORTS, BoundNumbers(b)[m]) = Count(BoundNumbers(b), BoundNumbers(b)[m])

\* a payload for two required ports with two different host ports was sent
C17_Witness ==
    /\ Len(log) >= 1
    /\ Len(required) = 2
    /\ ports_list[1] # ports_list[2]

\* C18: the i-th requirement is bound to the i-th allocated host port with
\* the i-th requirement's protocol, and building the bindings never fails
\* for lack of an allocated entry.
C18_BindingFollowsAllocationOrder ==
    /\ exc # "IndexError"
    /\ pc \in {"create", "start"} =>
            /\ Len(bindings) = Len(required)
            /\ \A k \in 1..Len(required) :
                  bindings[k] = <<required[k],
                                  <<[HostPort |-> <<ports_list[k], required[k][2]>>]>>>>
\* the host ports an attempt with locals c holds once its allocation loop
\* is over
HeldPorts(c) ==
    IF c.pc \in {"create", "start", "returned", "raised"} /\ Len(c.ports_list) = Len(required)
    THEN {c.ports_list[k] : k \in 1..Len(c.ports_list)}
    ELSE {}

\* C16: with two attempts interleaved, a port that passed the test of line
\* 60 in one attempt is not in portbl while the other attempt runs its own
\* test, so nothing keeps both from being assigned the same host port.
C16_AssignedPortNotYetRecorded ==
    (HeldPorts(Running) \cup HeldPorts(other)) \cap portbl = {}

\* both attempts have been assigned the same host port
C16_Witness ==
    /\ other.pc # "idle"
    /\ HeldPorts(Running) \cap HeldPorts(other) # {}
====
